---- MODULE Spec2Model ----
(***************************************************************************)
(* Model of sininen: subtitle transcripts are encoded as a flat text plus  *)
(* a stored table of (start, end, end position) float triples              *)
(* (parse.go); at query time the raw bleve results are assembled into      *)
(* per-document segment hits and ranked (search.go).                       *)
(*                                                                         *)
(* Units.  A time.Duration is counted in milliseconds (subtitle cues have  *)
(* millisecond resolution), so Second is 1000.  A float64 is kept in fixed *)
(* point with the same resolution: the float x is the integer x * Second.  *)
(* An interface{} entry of a stored table is a record that says whether    *)
(* the dynamic type is float64.                                            *)
(***************************************************************************)
EXTENDS Integers, Sequences, FiniteSets, TLC

VARIABLES
    bleveResults,    \* the hits of the *bleve.SearchResult handed to AssembleSearchResults
    pc,              \* control: "hits", "locations", "assembled", "done", "failed", "panicked" (search);
                     \*          "parse", "parsed" (indexing); "count", "counted" (NDistinctTerms)
    hitIndex,        \* index (from 1) of the hit the outer loop of AssembleSearchResults is at
    todo,            \* locations of the current hit the range loops have not reached yet
    iter,            \* the (field, term) the inner range loops are at
    location,        \* loop variable: the location handled last
    i,               \* local i of AssembleSearchResults: what locateSegment returned last
    hitCache,        \* map[int]*SegmentHit of the current hit
    result,          \* the SearchResultSequence built so far (nil after an error return)
    err,             \* the error AssembleSearchResults returned, "nil" when none
    scoredSegments,  \* what ScoredSegments returned
    st,              \* ParseSubtitleFile: the items (cues) of the opened subtitle file
    itemIndex,       \* ParseSubtitleFile: index (from 1) of the item the loop is at
    sb,              \* ParseSubtitleFile: content of the strings.Builder
    floats,          \* ParseSubtitleFile: the local slice segments
    made,            \* the transcriptionSegment values built on line 63, in order
    transcription,   \* the Transcription returned, as bleve stores it
    decoded,         \* the segments read back from the stored table
    sh,              \* NDistinctTerms: the SegmentHit it is called on
    nDistinct        \* NDistinctTerms: what it returned

searchVars == <<bleveResults, hitIndex, todo, iter, location, i, hitCache, result, err,
                scoredSegments>>
parseVars == <<st, itemIndex, sb, floats, made, transcription, decoded>>
termVars == <<sh, nDistinct>>
vars == <<pc, searchVars, parseVars, termVars>>

-----------------------------------------------------------------------------
(* Bounds of the explored inputs. *)

MaxSegments == 2    \* segments in a stored table
MaxOffset == 3      \* largest end position of a table, largest match offset
MaxLocations == 3   \* match locations of a document
MaxHits == 2        \* documents in one query result
MaxCues == 2        \* cues in a subtitle file
MaxTerms == 5       \* terms of a SegmentHit handed to NDistinctTerms on its own

Second == 1000      \* time.Second, in the model's Duration unit (ms)

-----------------------------------------------------------------------------
(* Strings.  TLA+ has no order on strings: StringOrder lists every string   *)
(* of the model in Go's (bytewise lexicographic) order.                     *)

StringOrder == <<"", "caesar", "rome", "vid1", "vid2", "vid3">>

StringRank(s) == CHOOSE k \in 1..Len(StringOrder) : StringOrder[k] = s

\* Go's s < t on strings.
StringLess(s, t) == StringRank(s) < StringRank(t)

Range(s) == {s[k] : k \in DOMAIN s}

-----------------------------------------------------------------------------
(* float64 and interface{} values. *)

\* The float64 with value ms / Second, boxed in an interface{}.
Float(ms) == [isFloat |-> TRUE, val |-> ms]

\* float64(n) of an int n.
FloatOfInt(n) == Float(n * Second)

\* An interface{} whose dynamic type is not float64 (a string, say).
NotFloat == [isFloat |-> FALSE, val |-> 0]

\* int(f) and uint64(f) of a float64: truncation toward zero.
Truncate(val) == IF val >= 0 THEN val \div Second ELSE -((-val) \div Second)

-----------------------------------------------------------------------------
(* search.go: SegmentHit.NDistinctTerms *)

RECURSIVE countDistinct(_, _, _)
countDistinct(terms, last, count) ==
    IF terms = <<>> THEN count
    ELSE IF Head(terms) # last
         THEN countDistinct(Tail(terms), Head(terms), count + 1)
         ELSE countDistinct(Tail(terms), last, count)

NDistinctTerms(segment) == countDistinct(segment.SortedTerms, "", 0)

\* A call of NDistinctTerms on sh.
CountTerms ==
    /\ pc = "count"
    /\ nDistinct' = NDistinctTerms(sh)
    /\ pc' = "counted"
    /\ UNCHANGED <<sh, searchVars, parseVars>>

-----------------------------------------------------------------------------
(* search.go: locateSegment *)

\* Mutant of closure: a segment is taken to contain its own end position.
closure_GE(segments, k, loc) ==
    LET e == segments[k * 3 + 2 + 1]
        ok == e.isFloat /\ e.val > 0
    IN  [ret |-> ok /\ Truncate(e.val) >= loc.Start, failed |-> ~ok]

\* The closure handed to sort.Search: its return value and whether it set searchFailed.
closure(segments, k, loc) ==
    LET e == segments[k * 3 + 2 + 1]
        ok == e.isFloat /\ e.val > 0
    IN  [ret |-> ok /\ Truncate(e.val) > loc.Start, failed |-> ~ok]

\* sort.Search(n, f): binary search on [lo, hi), with the closure's flag threaded through.
RECURSIVE sortSearch(_, _, _, _, _)
sortSearch(segments, loc, lo, hi, searchFailed) ==
    IF lo < hi
    THEN LET h == (lo + hi) \div 2
             c == closure(segments, h, loc)
         IN  IF ~c.ret
             THEN sortSearch(segments, loc, h + 1, hi, searchFailed \/ c.failed)
             ELSE sortSearch(segments, loc, lo, h, searchFailed \/ c.failed)
    ELSE [position |-> lo, searchFailed |-> searchFailed]

locateSegment(segments, loc) ==
    LET s == sortSearch(segments, loc, 0, Len(segments) \div 3, FALSE)
    IN  IF s.searchFailed THEN -1 ELSE s.position

-----------------------------------------------------------------------------
(* search.go: extractDurations.  panic is the run-time panic of an index    *)
(* out of range; err is "nil" or the error returned.                        *)

extractDurations(segments, segmentPos) ==
    IF segmentPos * 3 + 1 > Len(segments)
    THEN [startTime |-> 0, endTime |-> 0, err |-> "nil", panic |-> TRUE]
    ELSE LET s == segments[segmentPos * 3 + 1]
             e == segments[segmentPos * 3 + 1 + 1]
         IN  IF ~s.isFloat \/ ~e.isFloat
             THEN [startTime |-> 0, endTime |-> 0,
                   err |-> "Expected segments[i] to be of type float64", panic |-> FALSE]
             ELSE [startTime |-> Truncate(s.val) * Second,
                   endTime |-> Truncate(e.val) * Second,
                   err |-> "nil", panic |-> FALSE]

-----------------------------------------------------------------------------
(* sort.Strings and sort.Slice *)

RECURSIVE insertString(_, _)
insertString(sorted, s) ==
    IF sorted = <<>> THEN <<s>>
    ELSE IF StringLess(s, Head(sorted)) THEN <<s>> \o sorted
         ELSE <<Head(sorted)>> \o insertString(Tail(sorted), s)

\* Mutant of sortStrings: a string that occurs several times is kept once.
RECURSIVE sortStrings_unique(_)
sortStrings_unique(s) ==
    IF s = <<>> THEN <<>>
    ELSE LET rest == sortStrings_unique(Tail(s))
         IN  IF Head(s) \in Range(rest) THEN rest ELSE insertString(rest, Head(s))

\* sort.Strings: the ascending arrangement of the strings, duplicates kept.
RECURSIVE sortStrings(_)
sortStrings(s) ==
    IF s = <<>> THEN <<>> ELSE insertString(sortStrings(Tail(s)), Head(s))

\* Every arrangement of the elements of the finite set S.
RECURSIVE Orderings(_)
Orderings(S) ==
    IF S = {} THEN {<<>>}
    ELSE UNION {{<<x>> \o p : p \in Orderings(S \ {x})} : x \in S}

\* sort.Slice(s, less), less[a, b] telling whether the element at index a must come
\* before the one at index b.  The sort is not stable and, in AssembleSearchResults,
\* is fed in map iteration order: its outcome is any arrangement of s that the
\* comparator accepts as sorted.
sortSlice(s, less) ==
    LET n == Len(s)
        sorted(q) == \A a, b \in 1..n : a < b => ~less[q[b], q[a]]
    IN  {[k \in 1..n |-> s[q[k]]] : q \in {p \in Orderings(1..n) : sorted(p)}}

-----------------------------------------------------------------------------
(* search.go: the comparators of the two sort.Slice calls *)

\* AssembleSearchResults: order of the segment hits of one document.
lessSegments(si, sj) ==
    IF Len(si.SortedTerms) # Len(sj.SortedTerms)
    THEN Len(si.SortedTerms) > Len(sj.SortedTerms)
    ELSE si.StartTime < sj.StartTime

\* Mutant of lessScored: the tie-break on the document ID is reversed.
lessScored_idDescending(ri, rj) ==
    IF ri.Score # rj.Score THEN ri.Score > rj.Score
    ELSE IF ri.ID # rj.ID THEN StringLess(rj.ID, ri.ID)
    ELSE ri.StartTime < rj.StartTime

\* ScoredSegments: order of the flattened scored segments.
lessScored(ri, rj) ==
    IF ri.Score # rj.Score THEN ri.Score > rj.Score
    ELSE IF ri.ID # rj.ID THEN StringLess(ri.ID, rj.ID)
    ELSE ri.StartTime < rj.StartTime

-----------------------------------------------------------------------------
(* search.go: SearchResultSequence.ScoredSegments *)

\* Mutant of scoredSegment: the score counts every term, duplicates included.
scoredSegment_len(sr, segment) ==
    [StartTime |-> segment.StartTime, EndTime |-> segment.EndTime,
     SortedTerms |-> segment.SortedTerms,
     Score |-> sr.Score * Len(segment.SortedTerms), ID |-> sr.ID]

\* Mutant of scoredSegment: the score is added to the term count.
scoredSegment_additive(sr, segment) ==
    [StartTime |-> segment.StartTime, EndTime |-> segment.EndTime,
     SortedTerms |-> segment.SortedTerms,
     Score |-> sr.Score + NDistinctTerms(segment), ID |-> sr.ID]

\* The ScoredSegment built from one segment hit of the search result sr.
scoredSegment(sr, segment) ==
    [StartTime |-> segment.StartTime, EndTime |-> segment.EndTime,
     SortedTerms |-> segment.SortedTerms,
     Score |-> sr.Score * NDistinctTerms(segment), ID |-> sr.ID]

\* Mutant of flatten: the loop over the segments of a result is missing, only the
\* first segment of each document is taken.
RECURSIVE flatten_firstSegments(_)
flatten_firstSegments(srs) ==
    IF srs = <<>> THEN <<>>
    ELSE (IF Head(srs).Segments = <<>> THEN <<>>
          ELSE <<scoredSegment(Head(srs), Head(srs).Segments[1])>>)
            \o flatten_firstSegments(Tail(srs))

\* The two nested range loops: the scored segments in the order of srs.
RECURSIVE flatten(_)
flatten(srs) ==
    IF srs = <<>> THEN <<>>
    ELSE [k \in 1..Len(Head(srs).Segments) |-> scoredSegment(Head(srs), Head(srs).Segments[k])]
         \o flatten(Tail(srs))

\* What ScoredSegments can return for srs.
ScoredSegmentsOutcomes(srs) ==
    LET flat == flatten(srs)
    IN  sortSlice(flat, [a, b \in DOMAIN flat |-> lessScored(flat[a], flat[b])])

-----------------------------------------------------------------------------
(* search.go: AssembleSearchResults, one action per loop iteration *)

NoLocation == [field |-> "", term |-> "", Start |-> 0]

hit == bleveResults[hitIndex]

\* Mutant of ReturnError: the documents assembled so far are returned with the error.
ReturnError_partial(e) ==
    /\ pc' = "failed"
    /\ err' = e
    /\ result' = result

\* return nil, err
ReturnError(e) ==
    /\ pc' = "failed"
    /\ err' = e
    /\ result' = <<>>

\* Mutant of segmentsError: the length of the array is not checked.
segmentsError_anyLength(raw) ==
    IF raw.kind = "absent" THEN "Segments are missing from bleve search results."
    ELSE IF raw.kind # "array" THEN "Segments should be an array"
    ELSE "nil"

\* The checks of hit.Fields["Segments"]: the error they return, "nil" when they pass.
segmentsError(raw) ==
    IF raw.kind = "absent" THEN "Segments are missing from bleve search results."
    ELSE IF raw.kind # "array" THEN "Segments should be an array"
    ELSE IF Len(raw.array) % 3 # 0 THEN "Serialized segments should be a multiple of 3"
    ELSE "nil"

\* Mutant of BeginHit: hitCache is made once for the query, not once for each hit.
BeginHit_sharedCache ==
    /\ pc = "hits"
    /\ hitIndex <= Len(bleveResults)
    /\ LET e == segmentsError(hit.Fields.Segments)
       IN  IF e # "nil"
           THEN /\ ReturnError(e)
                /\ UNCHANGED <<todo, iter, location, hitCache>>
           ELSE /\ pc' = "locations"
                /\ todo' = hit.Locations
                /\ iter' = NoLocation
                /\ location' = NoLocation
                /\ UNCHANGED <<hitCache, result, err>>
    /\ UNCHANGED <<bleveResults, hitIndex, i, scoredSegments>>
    /\ UNCHANGED <<parseVars, termVars>>

\* Head of the outer loop: the checks of hit.Fields["Segments"], then a fresh hitCache.
BeginHit ==
    /\ pc = "hits"
    /\ hitIndex <= Len(bleveResults)
    /\ LET e == segmentsError(hit.Fields.Segments)
       IN  IF e # "nil"
           THEN /\ ReturnError(e)
                /\ UNCHANGED <<todo, iter, location, hitCache>>
           ELSE /\ pc' = "locations"
                /\ todo' = hit.Locations
                /\ iter' = NoLocation
                /\ location' = NoLocation
                /\ hitCache' = <<>>
                /\ UNCHANGED <<result, err>>
    /\ UNCHANGED <<bleveResults, hitIndex, i, scoredSegments>>
    /\ UNCHANGED <<parseVars, termVars>>

\* The locations the range loops can reach next: maps are ranged over in any order,
\* the locations slice of one term in its own order (ascending offsets).
NextLocations ==
    LET sameTerm == {l \in todo : l.field = iter.field /\ l.term = iter.term}
        sameField == {l \in todo : l.field = iter.field}
        pool == IF sameTerm # {} THEN sameTerm
                ELSE IF sameField # {} THEN sameField ELSE todo
    IN  {l \in pool : \A m \in pool :
            (m.field = l.field /\ m.term = l.term) => l.Start <= m.Start}

\* Mutant of cacheHit: a later match in a cached segment replaces the cached terms.
cacheHit_overwrite(cache, idx, term, start, end) ==
    (idx :> [StartTime |-> start, EndTime |-> end, SortedTerms |-> <<term>>]) @@ cache

\* hitCache after the body of the innermost loop found segment idx for term.
cacheHit(cache, idx, term, start, end) ==
    IF idx \in DOMAIN cache
    THEN [cache EXCEPT ![idx].SortedTerms = Append(@, term)]
    ELSE cache @@ (idx :> [StartTime |-> start, EndTime |-> end, SortedTerms |-> <<term>>])

\* One iteration of the innermost loop.
ProcessLocation ==
    /\ pc = "locations"
    /\ \E l \in NextLocations :
        LET segments == hit.Fields.Segments.array
            idx == locateSegment(segments, l)
            d == extractDurations(segments, idx)
        IN  /\ todo' = todo \ {l}
            /\ iter' = [field |-> l.field, term |-> l.term, Start |-> 0]
            /\ location' = l
            /\ i' = idx
            /\ IF idx < 0
               THEN /\ ReturnError("Failed to locate segment.")
                    /\ UNCHANGED hitCache
               ELSE IF d.panic
               THEN /\ pc' = "panicked"
                    /\ UNCHANGED <<hitCache, result, err>>
               ELSE IF d.err # "nil"
               THEN /\ ReturnError(d.err)
                    /\ UNCHANGED hitCache
               ELSE /\ hitCache' = cacheHit(hitCache, idx, l.term, d.startTime, d.endTime)
                    /\ UNCHANGED <<pc, result, err>>
    /\ UNCHANGED <<bleveResults, hitIndex, scoredSegments>>
    /\ UNCHANGED <<parseVars, termVars>>

\* After the location loops: sort the terms of each cached hit, collect the hits in
\* map iteration order, sort them, append the document's SearchResult.
FinishHit ==
    /\ pc = "locations"
    /\ todo = {}
    /\ LET sortedCache == [k \in DOMAIN hitCache |->
                              [hitCache[k] EXCEPT !.SortedTerms = sortStrings(@)]]
           order == CHOOSE p \in Orderings(DOMAIN hitCache) : TRUE
           collected == [k \in 1..Len(order) |-> sortedCache[order[k]]]
       IN  /\ hitCache' = sortedCache
           /\ \E sortedSegments \in
                    sortSlice(collected, [a, b \in DOMAIN collected |->
                                             lessSegments(collected[a], collected[b])]) :
                result' = Append(result, [ID |-> hit.ID, Score |-> hit.Score,
                                          Segments |-> sortedSegments])
    /\ hitIndex' = hitIndex + 1
    /\ pc' = "hits"
    /\ iter' = NoLocation          \* the loop variables leave their scope
    /\ location' = NoLocation
    /\ i' = 0
    /\ UNCHANGED <<bleveResults, todo, err, scoredSegments>>
    /\ UNCHANGED <<parseVars, termVars>>

\* return result, nil
ReturnResult ==
    /\ pc = "hits"
    /\ hitIndex > Len(bleveResults)
    /\ pc' = "assembled"
    /\ UNCHANGED <<bleveResults, hitIndex, todo, iter, location, i, hitCache, result, err,
                   scoredSegments>>
    /\ UNCHANGED <<parseVars, termVars>>

\* cli main: videos.ScoredSegments() on the assembled result.
ScoredSegments ==
    /\ pc = "assembled"
    /\ scoredSegments' \in ScoredSegmentsOutcomes(result)
    /\ pc' = "done"
    /\ UNCHANGED <<bleveResults, hitIndex, todo, iter, location, i, hitCache, result, err>>
    /\ UNCHANGED <<parseVars, termVars>>

-----------------------------------------------------------------------------
(* parse.go *)

\* addSubtitleItem on an empty builder: the texts of the line items of every line of
\* the item, joined by single spaces.
RECURSIVE joinTexts(_)
joinTexts(texts) ==
    IF texts = <<>> THEN ""
    ELSE IF Len(texts) = 1 THEN texts[1]
    ELSE texts[1] \o " " \o joinTexts(Tail(texts))

RECURSIVE lineTexts(_)
lineTexts(lines) ==
    IF lines = <<>> THEN <<>> ELSE <<joinTexts(Head(lines))>> \o lineTexts(Tail(lines))

addSubtitleItem(builder, item) == builder \o joinTexts(lineTexts(item.Lines))

\* Duration.Seconds(): the float64 number of seconds.
DurationSeconds(d) == Float(d)

\* Mutant of toFloats: the end position is stored before the end time.
toFloats_positionSecond(t) ==
    <<DurationSeconds(t.StartTime), FloatOfInt(t.EndPos), DurationSeconds(t.EndTime)>>

\* transcriptionSegment.toFloats
toFloats(t) == <<DurationSeconds(t.StartTime), DurationSeconds(t.EndTime), FloatOfInt(t.EndPos)>>

\* ParseSubtitleFile, one iteration of the loop over st.Items.
AppendItem ==
    /\ pc = "parse"
    /\ itemIndex <= Len(st)
    /\ LET item == st[itemIndex]
           written == addSubtitleItem(IF itemIndex > 1 THEN sb \o "\n" ELSE sb, item)
           t == [StartTime |-> item.StartAt, EndTime |-> item.EndAt, EndPos |-> Len(written)]
       IN  /\ sb' = written
           /\ made' = Append(made, t)
           /\ floats' = floats \o toFloats(t)
    /\ itemIndex' = itemIndex + 1
    /\ UNCHANGED <<pc, st, transcription, decoded, searchVars, termVars>>

\* ParseSubtitleFile: return &Transcription{sb.String(), segments}, nil; the index
\* stores the Segments field and hands it back as an array of float64.
ReturnTranscription ==
    /\ pc = "parse"
    /\ itemIndex > Len(st)
    /\ transcription' = [Words |-> sb, Segments |-> floats]
    /\ pc' = "parsed"
    /\ UNCHANGED <<st, itemIndex, sb, floats, made, decoded, searchVars, termVars>>

\* Query time: the next segment of the stored table read back, the times by
\* extractDurations and the end position by the conversion in locateSegment.
DecodeSegment ==
    /\ pc = "parsed"
    /\ Len(decoded) < Len(transcription.Segments) \div 3
    /\ LET k == Len(decoded)
           d == extractDurations(transcription.Segments, k)
       IN  decoded' = Append(decoded,
                [StartTime |-> d.startTime, EndTime |-> d.endTime,
                 EndPos |-> Truncate(transcription.Segments[k * 3 + 3].val)])
    /\ UNCHANGED <<pc, st, itemIndex, sb, floats, made, transcription, searchVars, termVars>>

\* Query time: a match at a position of the flat text is located in the stored table
\* (the call of locateSegment in AssembleSearchResults).
LocateOffset ==
    /\ pc = "parsed"
    /\ \E o \in 0..(Len(transcription.Words) - 1) :
          LET l == [field |-> "Words", term |-> "rome", Start |-> o]
          IN  /\ location' = l
              /\ i' = locateSegment(transcription.Segments, l)
    /\ UNCHANGED <<pc, bleveResults, hitIndex, todo, iter, hitCache, result, err,
                   scoredSegments, parseVars, termVars>>

-----------------------------------------------------------------------------
(* The explored inputs *)

Fields == {"Words"}     \* the only indexed field of a Transcription
Terms == {"caesar", "rome"}
Scores == {1, 2}
DocIDs == <<"vid1", "vid2", "vid3">>

\* Cue timings: the start of the first cue and the length of every cue, in ms.
CueTimings == {[first |-> 0, length |-> Second],
               [first |-> Second \div 2, length |-> Second],
               [first |-> 0, length |-> Second \div 2]}
WholeSeconds == [first |-> 0, length |-> Second]

\* Strictly increasing end positions of n segments.
EndPositions(n) ==
    {p \in [1..n -> 0..MaxOffset] : \A a, b \in 1..n : a < b => p[a] < p[b]}

\* The stored table of contiguous cues with the given timing and end positions.
Table(timing, ends) ==
    [j \in 1..(3 * Len(ends)) |->
        LET k == (j - 1) \div 3
        IN  IF (j - 1) % 3 = 0 THEN Float(timing.first + k * timing.length)
            ELSE IF (j - 1) % 3 = 1 THEN Float(timing.first + (k + 1) * timing.length)
            ELSE FloatOfInt(ends[k + 1])]

TablesOf(timings) ==
    {Table(t, p) : t \in timings, p \in UNION {EndPositions(n) : n \in 0..MaxSegments}}

\* Tables with one entry that is no float64, and tables that lost their last entry.
CorruptTables ==
    UNION {{[t EXCEPT ![j] = NotFloat] : j \in DOMAIN t} : t \in TablesOf({WholeSeconds})}
TruncatedTables ==
    {SubSeq(t, 1, Len(t) - 1) : t \in TablesOf({WholeSeconds}) \ {<<>>}}

Array(t) == [kind |-> "array", array |-> t]
Absent == [kind |-> "absent", array |-> <<>>]
Scalar == [kind |-> "scalar", array |-> <<>>]

RawSegments ==
    {Array(t) : t \in TablesOf(CueTimings) \cup CorruptTables \cup TruncatedTables}
        \cup {Absent, Scalar}

\* Sets of at most max match locations, one term per text position.
LocationSets(terms, max) ==
    {S \in SUBSET [field : Fields, term : terms, Start : 0..MaxOffset] :
        /\ Cardinality(S) <= max
        /\ \A l, m \in S : (l.field = m.field /\ l.Start = m.Start) => l = m}

Hit(id, score, raw, locations) ==
    [ID |-> id, Score |-> score, Fields |-> [Segments |-> raw], Locations |-> locations]

\* A query that matched one document.
SingleHit ==
    \E s \in Scores, r \in RawSegments, L \in LocationSets(Terms, MaxLocations) :
        bleveResults = <<Hit(DocIDs[1], s, r, L)>>

\* A query that matched several documents: bleve lists them by descending score.
\* Every document has the same table of MaxSegments segments (the first of one
\* character, the others of two); one of them has up to two matches of any terms,
\* the others at most one match, at offset 0.  The last document may have a table
\* with a start time that is no float64, or no table (the documents after a broken
\* one are never read).
FullTable == Table(WholeSeconds, [k \in 1..MaxSegments |-> 2 * k - 1])
BrokenRaw == {Array([FullTable EXCEPT ![Len(FullTable) - 2] = NotFloat]), Absent}
SeveralHits ==
    \E n \in 2..MaxHits :
        \E ids \in {[k \in 1..n |-> DocIDs[k]], [k \in 1..n |-> DocIDs[n + 1 - k]]},
           s \in {f \in [1..n -> Scores] : \A a, b \in 1..n : a < b => f[a] >= f[b]},
           last \in {Array(FullTable)} \cup BrokenRaw,
           rich \in 1..n,
           R \in LocationSets(Terms, 2),
           L \in [1..n -> {{}, {[field |-> "Words", term |-> "rome", Start |-> 0]}}] :
            bleveResults =
                [k \in 1..n |-> Hit(ids[k], s[k],
                                     IF k = n THEN last ELSE Array(FullTable),
                                     IF k = rich THEN R ELSE L[k])]

\* The end-to-end scenario of the specification.
ScenarioHits ==
    <<Hit("vid1", 2,
          Array(<<Float(0), Float(5 * Second), FloatOfInt(50),
                  Float(5 * Second), Float(10 * Second), FloatOfInt(120),
                  Float(10 * Second), Float(15 * Second), FloatOfInt(200)>>),
          {[field |-> "Words", term |-> "rome", Start |-> 30],
           [field |-> "Words", term |-> "rome", Start |-> 140],
           [field |-> "Words", term |-> "caesar", Start |-> 145]})>>

\* Subtitle files: at most MaxCues cues, start and end times on a half-second grid,
\* no text, one word, or two lines.
CueTimes == {0, Second \div 2, Second + Second \div 2}
CueLines == {<<>>, <<<<"a">>>>, <<<<"ab">>, <<"c">>>>}
Cues == {c \in [StartAt : CueTimes, EndAt : CueTimes, Lines : CueLines] : c.StartAt <= c.EndAt}
SubtitleFiles == UNION {[1..n -> Cues] : n \in 0..MaxCues}

SearchIdle ==
    /\ hitIndex = 1
    /\ todo = {}
    /\ iter = NoLocation
    /\ location = NoLocation
    /\ i = 0
    /\ hitCache = <<>>
    /\ result = <<>>
    /\ err = "nil"
    /\ scoredSegments = <<>>

ParseIdle ==
    /\ itemIndex = 1
    /\ sb = ""
    /\ floats = <<>>
    /\ made = <<>>
    /\ transcription = [Words |-> "", Segments |-> <<>>]
    /\ decoded = <<>>

NoSegmentHit == [StartTime |-> 0, EndTime |-> 0, SortedTerms |-> <<>>]

TermsIdle ==
    /\ sh = NoSegmentHit
    /\ nDistinct = 0

\* Segment hits whose terms are sorted as sort.Strings leaves them: at most MaxTerms
\* terms, the empty string among the possible terms.
TermStrings == {"", "caesar", "rome"}
SortedTermsSequences ==
    UNION {{t \in [1..n -> TermStrings] :
                \A a, b \in 1..n : a < b => ~StringLess(t[b], t[a])} : n \in 0..MaxTerms}

\* NDistinctTerms called on one segment hit.
InitTerms ==
    /\ \E t \in SortedTermsSequences :
          sh = [StartTime |-> 0, EndTime |-> Second, SortedTerms |-> t]
    /\ nDistinct = 0
    /\ pc = "count"
    /\ bleveResults = <<>>
    /\ st = <<>>
    /\ SearchIdle
    /\ ParseIdle

NextTerms == CountTerms

SpecTerms == InitTerms /\ [][NextTerms]_vars

\* Indexing: ParseSubtitleFile on one subtitle file, then the stored table read back.
InitParse ==
    /\ st \in SubtitleFiles
    /\ pc = "parse"
    /\ bleveResults = <<>>
    /\ SearchIdle
    /\ ParseIdle
    /\ TermsIdle

NextParse ==
    \/ AppendItem
    \/ ReturnTranscription
    \/ DecodeSegment
    \/ LocateOffset

SpecParse == InitParse /\ [][NextParse]_vars

\* Searching: AssembleSearchResults on the raw results of one query, then ScoredSegments.
Init ==
    /\ \/ SingleHit
       \/ SeveralHits
       \/ bleveResults = ScenarioHits
       \/ bleveResults = <<>>
    /\ pc = "hits"
    /\ st = <<>>
    /\ ParseIdle
    /\ SearchIdle
    /\ TermsIdle

Next ==
    \/ BeginHit
    \/ ProcessLocation
    \/ FinishHit
    \/ ReturnResult
    \/ ScoredSegments

Spec == Init /\ [][Next]_vars

-----------------------------------------------------------------------------
(* Vocabulary of the properties *)

\* A location of the current hit has gone through the body of the innermost loop.
Located == location # NoLocation

\* The stored table of the current hit, when it passed the checks of BeginHit.
segmentsOfHit == hit.Fields.Segments.array

NSegments(segments) == Len(segments) \div 3
EndEntry(segments, k) == segments[k * 3 + 3]          \* k counts from 0

\* The end_offset values are numbers and strictly increasing.
StrictlyIncreasingEnds(segments) ==
    /\ \A k \in 0..(NSegments(segments) - 1) : EndEntry(segments, k).isFloat
    /\ \A a, b \in 0..(NSegments(segments) - 1) :
          a < b => EndEntry(segments, a).val < EndEntry(segments, b).val

PositiveEnds(segments) ==
    \A k \in 0..(NSegments(segments) - 1) : EndEntry(segments, k).val > 0

\* offset < end_offset of the last segment.
InsideTable(segments, offset) ==
    /\ NSegments(segments) > 0
    /\ offset * Second < EndEntry(segments, NSegments(segments) - 1).val

\* The indexes k with segments[k].end_offset > offset.
EndsAfter(segments, offset) ==
    {k \in 0..(NSegments(segments) - 1) : EndEntry(segments, k).val > offset * Second}

IsSmallestEndAfter(segments, offset, idx) ==
    /\ idx \in EndsAfter(segments, offset)
    /\ \A k \in EndsAfter(segments, offset) : idx <= k

\* offset >= end_offset of the last segment, or the table is empty.
BeyondTable(segments, offset) ==
    \/ NSegments(segments) = 0
    \/ /\ EndEntry(segments, NSegments(segments) - 1).isFloat
       /\ offset * Second >= EndEntry(segments, NSegments(segments) - 1).val

HasNonFloat(segments) == \E j \in DOMAIN segments : ~segments[j].isFloat

\* Number of distinct values in a terms sequence.
DistinctTermCount(terms) == Cardinality(Range(terms))

Count(s, v) == Cardinality({k \in DOMAIN s : s[k] = v})

Seconds(n) == n * Second

-----------------------------------------------------------------------------
(* C1 *)

\* C1 as stated: for a table with strictly increasing end_offset values and an
\* offset below the last end_offset, locateSegment returns the smallest index whose
\* end_offset exceeds the offset, and does not fail.
C1_LocateStrictlyIncreasing ==
    (/\ Located
     /\ StrictlyIncreasingEnds(segmentsOfHit)
     /\ InsideTable(segmentsOfHit, location.Start))
        => /\ i >= 0
           /\ IsSmallestEndAfter(segmentsOfHit, location.Start, i)

\* C1 amended: for a table whose end_offset values are positive and strictly
\* increasing and an offset below the last end_offset, locateSegment returns the
\* smallest index whose end_offset exceeds the offset, and does not fail.
C1_LocatePositiveIncreasing ==
    (/\ Located
     /\ StrictlyIncreasingEnds(segmentsOfHit)
     /\ PositiveEnds(segmentsOfHit)
     /\ InsideTable(segmentsOfHit, location.Start))
        => /\ i >= 0
           /\ IsSmallestEndAfter(segmentsOfHit, location.Start, i)

\* An offset equal to the first end_offset of a two-segment table was located in
\* the second segment.
C1_Witness ==
    /\ Located
    /\ StrictlyIncreasingEnds(segmentsOfHit)
    /\ PositiveEnds(segmentsOfHit)
    /\ NSegments(segmentsOfHit) >= 2
    /\ location.Start * Second = EndEntry(segmentsOfHit, 0).val
    /\ i = 1

-----------------------------------------------------------------------------
(* C2 *)

\* C2: a match offset at or beyond the last end_offset (or any offset in an empty
\* table) makes AssembleSearchResults return an error; the table is never read past
\* its end.
C2_BeyondTableIsAnError ==
    (Located /\ BeyondTable(segmentsOfHit, location.Start))
        => (pc = "failed" /\ err # "nil")

-----------------------------------------------------------------------------
(* C3 *)

\* C3: a document whose stored table holds an entry that is no number, and that has
\* at least one match location, is never assembled successfully.
C3_NonNumericEntryAborts ==
    pc \in {"assembled", "done"} =>
        \A d \in DOMAIN bleveResults :
            ~(/\ bleveResults[d].Locations # {}
              /\ HasNonFloat(bleveResults[d].Fields.Segments.array))

-----------------------------------------------------------------------------
(* C4 *)

\* C4: the ranked output is determined by the input: whatever the iteration order of
\* the maps and whatever the unstable sorts do with equal elements, ScoredSegments
\* has a single possible outcome.
C4_RankedOutputIsDetermined ==
    pc = "done" => \A outcome \in ScoredSegmentsOutcomes(result) : outcome = scoredSegments

-----------------------------------------------------------------------------
(* C5 *)

RankedBefore(a, b) ==
    \/ a.Score > b.Score
    \/ /\ a.Score = b.Score
       /\ \/ StringLess(a.ID, b.ID)
          \/ a.ID = b.ID /\ a.StartTime <= b.StartTime

\* C5: adjacent scored segments are ordered by score descending, then document ID
\* ascending, then start_time ascending.
C5_RankedOrder ==
    pc = "done" =>
        \A k \in 1..(Len(scoredSegments) - 1) :
            RankedBefore(scoredSegments[k], scoredSegments[k + 1])

\* Two documents tied on the score were ranked.
C5_Witness ==
    /\ pc = "done"
    /\ \E k \in 1..(Len(scoredSegments) - 1) :
          /\ scoredSegments[k].Score = scoredSegments[k + 1].Score
          /\ scoredSegments[k].ID # scoredSegments[k + 1].ID

-----------------------------------------------------------------------------
(* C6 *)

\* C6: the segment hits of every assembled document are ordered by descending
\* distinct_term_count, then ascending start_time.
C6_SegmentsByDistinctTerms ==
    \A d \in DOMAIN result :
        \A k \in 1..(Len(result[d].Segments) - 1) :
            LET a == result[d].Segments[k]
                b == result[d].Segments[k + 1]
            IN  \/ DistinctTermCount(a.SortedTerms) > DistinctTermCount(b.SortedTerms)
                \/ /\ DistinctTermCount(a.SortedTerms) = DistinctTermCount(b.SortedTerms)
                   /\ a.StartTime <= b.StartTime

-----------------------------------------------------------------------------
(* C7 *)

\* The document whose SearchResult was appended last, and its locations per segment.
lastHit == bleveResults[hitIndex - 1]
LocationsIn(k) ==
    {l \in lastHit.Locations : locateSegment(lastHit.Fields.Segments.array, l) = k}

\* C7: the matches of one document that resolve to one segment index make exactly
\* one SegmentHit, with one terms entry per match and a distinct_term_count equal to
\* the number of different terms among them.
C7_OneHitPerSegment ==
    (pc \in {"hits", "assembled", "done"} /\ hitIndex > 1) =>
        LET segs == result[hitIndex - 1].Segments
        IN  /\ DOMAIN hitCache =
                  {locateSegment(lastHit.Fields.Segments.array, l) : l \in lastHit.Locations}
            /\ Len(segs) = Cardinality(DOMAIN hitCache)
            /\ \A k \in DOMAIN hitCache :
                  /\ Count(segs, hitCache[k]) =
                        Cardinality({m \in DOMAIN hitCache : hitCache[m] = hitCache[k]})
                  /\ Len(hitCache[k].SortedTerms) = Cardinality(LocationsIn(k))
                  /\ NDistinctTerms(hitCache[k]) =
                        Cardinality({l.term : l \in LocationsIn(k)})

\* One segment took three matches of two different terms.
C7_Witness ==
    /\ pc \in {"hits", "assembled", "done"}
    /\ hitIndex > 1
    /\ \E k \in DOMAIN hitCache :
          /\ Cardinality(LocationsIn(k)) = 3
          /\ Cardinality({l.term : l \in LocationsIn(k)}) = 2
          /\ Len(result[hitIndex - 1].Segments) = 1

-----------------------------------------------------------------------------
(* C8 *)

ScoredHit(start, end, terms, score, id) ==
    [StartTime |-> start, EndTime |-> end, SortedTerms |-> terms, Score |-> score, ID |-> id]

\* C8 as stated: the scenario ranks the 5s-10s segment (end_offset 120) with terms
\* caesar, rome and score 4 first, then the 0s-5s segment with rome and score 2.
C8_ScenarioAsStated ==
    (bleveResults = ScenarioHits /\ pc = "done") =>
        scoredSegments =
            <<ScoredHit(Seconds(5), Seconds(10), <<"caesar", "rome">>, 4, "vid1"),
              ScoredHit(Seconds(0), Seconds(5), <<"rome">>, 2, "vid1")>>

\* C8 amended: offsets 140 and 145 lie in the segment whose end_offset is 200, so
\* the scenario ranks the 10s-15s segment with terms caesar, rome and score 4 first,
\* then the 0s-5s segment (end_offset 50) with rome and score 2.
C8_Scenario ==
    (bleveResults = ScenarioHits /\ pc = "done") =>
        scoredSegments =
            <<ScoredHit(Seconds(10), Seconds(15), <<"caesar", "rome">>, 4, "vid1"),
              ScoredHit(Seconds(0), Seconds(5), <<"rome">>, 2, "vid1")>>

\* The scenario was assembled and ranked.
C8_Witness ==
    /\ bleveResults = ScenarioHits
    /\ pc = "done"
    /\ Len(scoredSegments) = 2

-----------------------------------------------------------------------------
(* C10 *)

\* C10: every scored segment carries the ID of its document, the start_time,
\* end_time and sorted terms of one of its segment hits, and the document's
\* relevance score times the number of distinct terms of that hit.
C10_ScoreIsRelevanceTimesDistinct ==
    pc = "done" =>
        \A k \in DOMAIN scoredSegments :
            \E d \in DOMAIN result :
                \E s \in DOMAIN result[d].Segments :
                    LET seg == result[d].Segments[s]
                        ss == scoredSegments[k]
                    IN  /\ ss.ID = bleveResults[d].ID
                        /\ ss.Score = bleveResults[d].Score
                                        * DistinctTermCount(seg.SortedTerms)
                        /\ ss.StartTime = seg.StartTime
                        /\ ss.EndTime = seg.EndTime
                        /\ ss.SortedTerms = seg.SortedTerms

\* A segment matched by a repeated term and a second term was scored.
C10_Witness ==
    /\ pc = "done"
    /\ \E k \in DOMAIN scoredSegments :
          /\ Len(scoredSegments[k].SortedTerms) = 3
          /\ DistinctTermCount(scoredSegments[k].SortedTerms) = 2
          /\ scoredSegments[k].Score = 4

-----------------------------------------------------------------------------
(* C9 *)

\* C9: reading the stored triples back gives, for every cue, the start_time,
\* end_time and end_offset that were encoded.
C9_RoundTrip ==
    \A k \in DOMAIN decoded : decoded[k] = made[k]

-----------------------------------------------------------------------------
(* C11 *)

\* C11: when AssembleSearchResults returns an error it returns no result list, not
\* even the documents assembled before the failing one; when it succeeds it
\* returns one SearchResult per document and no error.
C11_ErrorOrResult ==
    /\ pc = "failed" => (err # "nil" /\ result = <<>>)
    /\ pc \in {"assembled", "done"} => (err = "nil" /\ Len(result) = Len(bleveResults))

\* The query failed on its second document, after the first one was assembled.
C11_Witness ==
    /\ pc = "failed"
    /\ hitIndex > 1
    /\ bleveResults[1].Locations # {}
    /\ err # "nil"

-----------------------------------------------------------------------------
(* C12 *)

Malformed(raw) ==
    \/ raw.kind = "absent"
    \/ raw.kind # "array"
    \/ Len(raw.array) % 3 # 0

\* C12: when the outer loop reaches a document that has no Segments field, whose
\* Segments value is no array, or whose array length is no multiple of 3, its next
\* step is the error return, whatever the match locations of the document are, and
\* none of them has been resolved.
C12_MalformedSegmentsFail ==
    [][(pc = "hits" /\ hitIndex <= Len(bleveResults) /\ Malformed(hit.Fields.Segments))
          => (pc' = "failed" /\ err' # "nil" /\ result' = <<>>
              /\ location' = NoLocation /\ hitCache' = hitCache)]_vars

\* A document without match locations failed on the length of its array.
C12_Witness ==
    /\ pc = "failed"
    /\ hit.Locations = {}
    /\ hit.Fields.Segments.kind = "array"
    /\ Len(hit.Fields.Segments.array) % 3 # 0
    /\ err = "Serialized segments should be a multiple of 3"

-----------------------------------------------------------------------------
(* C13 *)

\* The text of a cue, and the end position of the segment before segment k of made.
CueText(item) == addSubtitleItem("", item)
PreviousEnd(k) == IF k = 1 THEN 0 ELSE made[k - 1].EndPos

\* C13: ParseSubtitleFile returns a document only for a cue sequence that is not
\* empty and has no cue with empty text; the segment table of a returned document
\* is not empty and every segment of it covers some text.
C13_EncoderRejectsEmpty ==
    pc = "parsed" =>
        /\ st # <<>>
        /\ \A k \in DOMAIN st : CueText(st[k]) # ""
        /\ transcription.Segments # <<>>
        /\ \A k \in DOMAIN made : made[k].EndPos > PreviousEnd(k)

-----------------------------------------------------------------------------
(* C14 *)

\* The indexes of the segments, other than the last, that end exactly at offset.
EndsAt(segments, offset) ==
    {k \in 0..(NSegments(segments) - 2) : EndEntry(segments, k).val = offset * Second}

\* C14: in a table with positive, strictly increasing end_offset values, a match
\* offset equal to the end_offset of segment k, k not the last segment, is located
\* in segment k + 1, and the match is cached under k + 1.
C14_BoundaryGoesToNextSegment ==
    (/\ Located
     /\ StrictlyIncreasingEnds(segmentsOfHit)
     /\ PositiveEnds(segmentsOfHit))
        => \A k \in EndsAt(segmentsOfHit, location.Start) :
              /\ i = k + 1
              /\ pc = "locations" => (k + 1) \in DOMAIN hitCache

\* The only match of a document sits on the end of the first segment and made a
\* hit for the second segment, none for the first.
C14_Witness ==
    /\ Located
    /\ pc = "locations"
    /\ StrictlyIncreasingEnds(segmentsOfHit)
    /\ PositiveEnds(segmentsOfHit)
    /\ EndsAt(segmentsOfHit, location.Start) = {0}
    /\ DOMAIN hitCache = {1}

-----------------------------------------------------------------------------
(* C15 *)

\* The flat text of a cue sequence: the cue texts joined by one separator character.
RECURSIVE FlatText(_)
FlatText(cues) ==
    IF cues = <<>> THEN ""
    ELSE IF Len(cues) = 1 THEN CueText(cues[1])
    ELSE FlatText(SubSeq(cues, 1, Len(cues) - 1)) \o "\n" \o CueText(cues[Len(cues)])

\* The end_offset of segment k (from 1) of a stored table.
StoredEnd(table, k) == table[3 * k]

\* C15: the end_offset stored for the k-th cue is the length of the flat text of the
\* first k cues, the stored end_offset values are strictly increasing, and the last
\* one of a returned document is the length of its whole flat text.
C15_EndOffsetIsRunningLength ==
    /\ Len(floats) = 3 * (itemIndex - 1)
    /\ \A k \in 1..(itemIndex - 1) :
          /\ StoredEnd(floats, k).isFloat
          /\ StoredEnd(floats, k).val = Len(FlatText(SubSeq(st, 1, k))) * Second
    /\ \A a, b \in 1..(itemIndex - 1) :
          a < b => StoredEnd(floats, a).val < StoredEnd(floats, b).val
    /\ pc = "parsed" =>
          /\ transcription.Words = FlatText(st)
          /\ Len(transcription.Segments) = 3 * Len(st)
          /\ st # <<>> =>
                StoredEnd(transcription.Segments, Len(st)).val
                    = Len(transcription.Words) * Second

\* A document of two cues with text was returned: the first segment ends before the
\* separator, the second at the end of the flat text.
C15_Witness ==
    /\ pc = "parsed"
    /\ Len(st) = 2
    /\ CueText(st[1]) = "ab c"
    /\ CueText(st[2]) = "a"
    /\ transcription.Words = "ab c\na"
    /\ StoredEnd(transcription.Segments, 1).val = 4 * Second
    /\ StoredEnd(transcription.Segments, 2).val = 6 * Second

-----------------------------------------------------------------------------
(* C16 *)

\* C16: for every sorted terms sequence, the empty sequence and sequences holding
\* the empty string included, NDistinctTerms returns the number of distinct values
\* of the sequence.
C16_CountsDistinctTerms ==
    pc = "counted" => nDistinct = DistinctTermCount(sh.SortedTerms)

-----------------------------------------------------------------------------
(* C17 *)

\* The match locations of document d that the locator puts in segment k, and the
\* segment indexes that take a match of d.
MatchesIn(d, k) ==
    {l \in bleveResults[d].Locations :
        locateSegment(bleveResults[d].Fields.Segments.array, l) = k}
MatchedSegments(d) ==
    {locateSegment(bleveResults[d].Fields.Segments.array, l) : l \in bleveResults[d].Locations}

Ascending(terms) == \A a, b \in DOMAIN terms : a < b => ~StringLess(terms[b], terms[a])

RECURSIVE TermsTotal(_)
TermsTotal(segs) ==
    IF segs = <<>> THEN 0 ELSE Len(Head(segs).SortedTerms) + TermsTotal(Tail(segs))

\* The segment hit holds the times of segment k of the table of document d and one
\* terms entry for every match of d in segment k.
HoldsMatchesOf(segmentHit, d, k) ==
    LET times == extractDurations(bleveResults[d].Fields.Segments.array, k)
        matches == MatchesIn(d, k)
    IN  /\ segmentHit.StartTime = times.startTime
        /\ segmentHit.EndTime = times.endTime
        /\ Len(segmentHit.SortedTerms) = Cardinality(matches)
        /\ \A t \in Terms :
              Count(segmentHit.SortedTerms, t) = Cardinality({l \in matches : l.term = t})

\* C17: after AssembleSearchResults succeeded, the terms of every SegmentHit of every
\* document are in ascending order with repeated terms kept, the hits of a document
\* correspond one to one to the segments that took a match, each with one terms
\* entry per match, and the terms of a document's hits add up to the number of its
\* match locations.
C17_TermsPerMatch ==
    pc \in {"assembled", "done"} =>
        \A d \in DOMAIN result :
            LET segs == result[d].Segments
            IN  /\ \A k \in DOMAIN segs : Ascending(segs[k].SortedTerms)
                /\ \E p \in Orderings(MatchedSegments(d)) :
                      /\ Len(p) = Len(segs)
                      /\ \A k \in DOMAIN segs : HoldsMatchesOf(segs[k], d, p[k])
                /\ TermsTotal(segs) = Cardinality(bleveResults[d].Locations)

\* A document with three matches was assembled: one segment took the same term
\* twice, another segment the third match.
C17_Witness ==
    /\ pc = "assembled"
    /\ \E d \in DOMAIN result :
          /\ Cardinality(bleveResults[d].Locations) = 3
          /\ Len(result[d].Segments) = 2
          /\ \E k \in DOMAIN result[d].Segments :
                /\ Len(result[d].Segments[k].SortedTerms) = 2
                /\ DistinctTermCount(result[d].Segments[k].SortedTerms) = 1

-----------------------------------------------------------------------------
(* C18 *)

\* Where the text of cue k (from 1) starts in the flat text, and whether position o
\* is in that text or is the separator written before it.
CueStart(k) == IF k = 1 THEN 0 ELSE Len(FlatText(SubSeq(st, 1, k - 1))) + 1
BelongsToCue(o, k) ==
    /\ o >= (IF k = 1 THEN 0 ELSE CueStart(k) - 1)
    /\ o < CueStart(k) + Len(CueText(st[k]))

\* C18: for every document ParseSubtitleFile returns, a first cue without text
\* included, and every position of its flat text, locateSegment on the stored table
\* does not fail and returns the index of the cue whose text holds the position, or
\* of the cue after the separator when the position is a separator.
C18_LocatorAgreesWithEncoder ==
    (pc = "parsed" /\ Located) =>
        /\ i >= 0
        /\ i < Len(st)
        /\ BelongsToCue(location.Start, i + 1)

-----------------------------------------------------------------------------
(* C19 *)

\* The (document, hit) pairs of a SearchResultSequence.
HitPairs(srs) == UNION {{<<d, k>> : k \in DOMAIN srs[d].Segments} : d \in DOMAIN srs}

RECURSIVE lenSegments(_)
lenSegments(srs) ==
    IF srs = <<>> THEN 0 ELSE Len(Head(srs).Segments) + lenSegments(Tail(srs))

IsHitOf(scored, srs, pair) ==
    LET sr == srs[pair[1]]
        segment == sr.Segments[pair[2]]
    IN  /\ scored.ID = sr.ID
        /\ scored.StartTime = segment.StartTime
        /\ scored.EndTime = segment.EndTime
        /\ scored.SortedTerms = segment.SortedTerms

\* C19: what ScoredSegments returns has as many elements as the documents have
\* segment hits together, its elements correspond one to one to the (document, hit)
\* pairs, a document without hits has no element in it, and the call leaves the
\* SearchResultSequence as it was.
C19_ScoredSegmentsIsPermutation ==
    /\ [](pc = "done" =>
            /\ Len(scoredSegments) = lenSegments(result)
            /\ \E p \in Orderings(HitPairs(result)) :
                  /\ Len(p) = Len(scoredSegments)
                  /\ \A k \in DOMAIN p : IsHitOf(scoredSegments[k], result, p[k])
            /\ \A d \in DOMAIN result :
                  result[d].Segments = <<>> =>
                      \A k \in DOMAIN scoredSegments : scoredSegments[k].ID # result[d].ID)
    /\ [][pc = "assembled" => result' = result]_vars

\* Two documents were ranked: one without hits, one with two hits.
C19_Witness ==
    /\ pc = "done"
    /\ Len(result) = 2
    /\ \E d, e \in DOMAIN result :
          /\ result[d].Segments = <<>>
          /\ Len(result[e].Segments) = 2
    /\ Len(scoredSegments) = 2

-----------------------------------------------------------------------------
(* C20 *)

\* The matches of the current hit that went through the innermost loop.
Handled == hit.Locations \ todo

\* C20: hitCache holds matches of the current document only, one terms entry per
\* handled match of that document in the segment; every SearchResult carries the ID
\* and score of the hit at its position in the engine's order, and each of its
\* segment hits holds the times of a segment of that document's table and the
\* matches of that document in it.
C20_CachePerDocument ==
    /\ pc = "locations" =>
          \A k \in DOMAIN hitCache :
              Len(hitCache[k].SortedTerms) =
                  Cardinality({l \in Handled : locateSegment(segmentsOfHit, l) = k})
    /\ \A d \in DOMAIN result :
          LET matched == MatchedSegments(d)
          IN  /\ result[d].ID = bleveResults[d].ID
              /\ result[d].Score = bleveResults[d].Score
              /\ Len(result[d].Segments) = Cardinality(matched)
              /\ \A s \in DOMAIN result[d].Segments :
                    \E k \in matched : HoldsMatchesOf(result[d].Segments[s], d, k)

\* Two documents each had one match in the first segment of their table, of
\* different terms: each SearchResult has its own hit with its own term.
C20_Witness ==
    /\ pc = "assembled"
    /\ Len(result) = 2
    /\ MatchedSegments(1) = {0}
    /\ MatchedSegments(2) = {0}
    /\ result[1].ID # result[2].ID
    /\ Len(result[1].Segments) = 1
    /\ Len(result[2].Segments) = 1
    /\ result[1].Segments[1].SortedTerms = <<"caesar">>
    /\ result[2].Segments[1].SortedTerms = <<"rome">>

====
